---- MODULE Spec2Model ----
(***************************************************************************)
(* A model of the PSSST X25519 / AES-128-GCM cipher suite of gopssst       *)
(* (v1pssst.go): the client's PackOutgoing and its reply decoder, the      *)
(* server's UnpackIncoming and its reply encoder, run over a network that  *)
(* an adversary may control.                                               *)
(*                                                                         *)
(* Byte strings are sequences of tokens.  A token stands for a run of      *)
(* bytes of a known length: one literal byte, a 32-byte curve point, a     *)
(* 32-byte scalar, a 32-byte SHA-256 digest, an AES-GCM output (plaintext  *)
(* length + 16), or a fragment of one of these.  Slicing is by byte        *)
(* offset, as in the source.  X25519, SHA-256 and AES-GCM are symbolic:    *)
(* a point is the product of the scalars the base point was multiplied     *)
(* by, the digest and the sealed box are free constructors.                *)
(*                                                                         *)
(* A function of the source is a chain of operators, one per stretch of    *)
(* its body; each passes the values computed so far to the next as         *)
(* arguments.                                                              *)
(***************************************************************************)
EXTENDS Integers, Sequences, FiniteSets, TLC

(***************************************************************************)
(* Bounds of the model: the reply handlers the applications hold at once,  *)
(* without and with the adversary.                                         *)
(***************************************************************************)
MaxHandlers == 3
AdvMaxHandlers == 1
TamperMaxHandlers == 2
RaceMaxHandlers == 2
MaxThreads == 2

(***************************************************************************)
(* Scalars.  ssk is the server's private key, csk the client's, e1 and e2  *)
(* are the values the client's random source can yield, ask is a scalar    *)
(* the adversary chose, xsk is the scalar value of 32 bytes that were not  *)
(* written as a scalar, jsk the unknown logarithm of a junk point.         *)
(***************************************************************************)
Ephemerals == {"e1", "e2"}

Min(a, b) == IF a < b THEN a ELSE b
Max(a, b) == IF a < b THEN b ELSE a

(***************************************************************************)
(* Tokens and byte strings.                                                *)
(***************************************************************************)
Byte(v) == [k |-> "b", v |-> v]
PointTok(p) == [k |-> "pt", p |-> p]
ScalarTok(s) == [k |-> "sc", s |-> s]
Frag(t, lo, hi) == [k |-> "frag", of |-> t, lo |-> lo, hi |-> hi]
\* the 32 bytes of point token t with the top bit of the last byte set, which
\* X25519 ignores
HighBit(t) == [k |-> "ptx", p |-> t.p]
\* the bytes of token t with some other bit changed
Flipped(t) == [k |-> "mod", of |-> t]

RECURSIVE ByteLen(_)
RECURSIVE TokSize(_)
TokSize(t) ==
  CASE t.k = "b" -> 1
    [] t.k = "pt" -> 32
    [] t.k = "ptx" -> 32
    [] t.k = "mod" -> TokSize(t.of)
    [] t.k = "sc" -> 32
    [] t.k = "sha256" -> 32
    [] t.k = "ct" -> ByteLen(t.c.pt) + 16
    [] t.k = "frag" -> t.hi - t.lo

ByteLen(bs) == IF bs = <<>> THEN 0 ELSE TokSize(Head(bs)) + ByteLen(Tail(bs))

\* bytes a..b of the n-byte token t
TokPiece(t, n, a, b) ==
  IF a >= b THEN <<>>
  ELSE IF a = 0 /\ b = n THEN <<t>>
  ELSE <<Frag(t, a, b)>>

\* bs[lo:hi] for lo <= hi <= ByteLen(bs); n is the size of the first token
RECURSIVE TokSliceAt(_, _, _, _)
TokSlice(bs, lo, hi) ==
  IF bs = <<>> \/ hi <= 0 THEN <<>> ELSE TokSliceAt(bs, TokSize(Head(bs)), lo, hi)

TokSliceAt(bs, n, lo, hi) ==
  TokPiece(Head(bs), n, Max(lo, 0), Min(hi, n)) \o TokSlice(Tail(bs), lo - n, hi - n)

(***************************************************************************)
(* A Go slice as a function receives it: the bytes within its length and   *)
(* the bytes of the backing array between its length and its capacity.     *)
(***************************************************************************)
GoSlice(b, spare) == [b |-> b, spare |-> spare]
Exact(b) == GoSlice(b, <<>>)
LenOf(s) == ByteLen(s.b)
CapOf(s) == ByteLen(s.b) + ByteLen(s.spare)

PANIC == "panic: slice bounds out of range"

\* s[lo:hi] panics unless lo <= hi <= cap(s)
SliceOK(s, lo, hi) == lo <= hi /\ hi <= CapOf(s)
SliceLoHi(s, lo, hi) == TokSlice(s.b \o s.spare, lo, hi)
\* s[lo:] panics unless lo <= len(s)
SliceFromOK(s, lo) == lo <= LenOf(s)
SliceFrom(s, lo) == TokSlice(s.b, lo, LenOf(s))

(***************************************************************************)
(* curve25519.X25519.  A point is written as its logarithm to the base     *)
(* point and X25519 multiplies it by the scalar, so that products do not   *)
(* depend on the order of the factors.  The scalars are distinct primes:   *)
(* two points are equal only if they are the same product, and nobody      *)
(* learns a factor from a product.  The low-order point stands for the     *)
(* inputs whose product is all-zero, which the library reports as an       *)
(* error.                                                                  *)
(***************************************************************************)
Value == [ssk |-> 2, csk |-> 3, e1 |-> 5, e2 |-> 7, ask |-> 11, xsk |-> 13, jsk |-> 17]

Basepoint == 1
LowOrderPoint == 0
JunkPoint == Value["jsk"] * Basepoint

Mult(s, p) == Value[s] * p

AsScalar(bs) ==
  IF Len(bs) = 1 /\ bs[1].k = "sc" THEN bs[1].s ELSE "xsk"

AsPoint(bs) ==
  IF Len(bs) = 1 /\ bs[1].k \in {"pt", "ptx"} THEN bs[1].p ELSE JunkPoint

ErrX25519Size == "bad scalar or point length"
ErrLowOrder == "bad input point: low order point"

X25519(scalar, point) ==
  IF ByteLen(scalar) # 32 \/ ByteLen(point) # 32
    THEN [out |-> <<>>, err |-> ErrX25519Size]
  ELSE IF AsPoint(point) = LowOrderPoint
    THEN [out |-> <<>>, err |-> ErrLowOrder]
  ELSE [out |-> <<PointTok(Mult(AsScalar(scalar), AsPoint(point)))>>, err |-> ""]

BasepointBytes == <<PointTok(Basepoint)>>

(***************************************************************************)
(* kdfX25519AESGCM128: SHA-256 over dhParam || sharedSecret, split into    *)
(* the key and the two nonces.                                             *)
(***************************************************************************)
Sha256(bs) == [k |-> "sha256", in |-> bs]

RQST == <<Byte(82), Byte(81), Byte(83), Byte(84)>>
RPLY == <<Byte(82), Byte(80), Byte(76), Byte(89)>>

\* kdfSplit with one nonce for both directions
kdfSplit_OneNonce(derivedBytes) ==
  [key  |-> TokSlice(derivedBytes, 0, 16),
   iv_c |-> TokSlice(derivedBytes, 16, 24) \o RQST,
   iv_s |-> TokSlice(derivedBytes, 16, 24) \o RQST]

kdfSplit(derivedBytes) ==
  [key  |-> TokSlice(derivedBytes, 0, 16),
   iv_c |-> TokSlice(derivedBytes, 16, 24) \o RQST,
   iv_s |-> TokSlice(derivedBytes, 24, 32) \o RPLY]

\* kdfX25519AESGCM128 hashing the shared secret alone
kdfX25519AESGCM128_SecretOnly(dhParam, sharedSecret) ==
  kdfSplit(<<Sha256(sharedSecret)>>)

kdfX25519AESGCM128(dhParam, sharedSecret) ==
  kdfSplit(<<Sha256(dhParam \o sharedSecret)>>)

(***************************************************************************)
(* AES-128-GCM.  Seal yields plaintext length + 16 bytes; Open succeeds    *)
(* only on a box sealed under the same key, nonce and associated data.     *)
(***************************************************************************)
ErrOpen == "cipher: message authentication failed"

Seal(key, nonce, plaintext, aad) ==
  <<[k |-> "ct", c |-> [key |-> key, nonce |-> nonce, pt |-> plaintext, aad |-> aad]]>>

Open(key, nonce, ciphertext, aad) ==
  IF /\ Len(ciphertext) = 1
     /\ ciphertext[1].k = "ct"
     /\ ciphertext[1].c.key = key
     /\ ciphertext[1].c.nonce = nonce
     /\ ciphertext[1].c.aad = aad
    THEN [out |-> ciphertext[1].c.pt, err |-> ""]
    ELSE [out |-> <<>>, err |-> ErrOpen]

(***************************************************************************)
(* The packet header and its wire form: Flags (2 bytes, big-endian),       *)
(* CipherSuite (1 byte), one reserved byte written as zero and not         *)
(* examined when read.                                                     *)
(***************************************************************************)
flagsReply == 1
flagsClientAuth == 2
CipherSuiteX25519AESGCM == 1

header(Flags, CipherSuite) == [Flags |-> Flags, CipherSuite |-> CipherSuite]

\* Flags & bit # 0, for bit a power of two
HasFlag(Flags, bit) == (Flags \div bit) % 2 = 1
\* Flags | bit
SetFlag(Flags, bit) == IF HasFlag(Flags, bit) THEN Flags ELSE Flags + bit

HeaderBytes(Flags, CipherSuite, rsvd) ==
  <<Byte(Flags \div 256), Byte(Flags % 256), Byte(CipherSuite), Byte(rsvd)>>

\* binary.Write(buf, binary.BigEndian, h)
binaryWrite(h) == HeaderBytes(h.Flags, h.CipherSuite, 0)

\* the value of byte i of bs; a byte inside a longer token reads as 255
ByteAt(bs, i) ==
  IF Len(bs) > i /\ \A j \in 1..(i + 1) : bs[j].k = "b" THEN bs[i + 1].v ELSE 255

ErrEOF == "EOF"
ErrUnexpectedEOF == "unexpected EOF"

\* binary.Read(bytes.NewReader(bs), binary.BigEndian, &h); n is the length of bs
binaryReadLen(bs, n) ==
  IF n = 0 THEN [h |-> header(0, 0), err |-> ErrEOF]
  ELSE IF n < 4 THEN [h |-> header(0, 0), err |-> ErrUnexpectedEOF]
  ELSE [h |-> header(ByteAt(bs, 0) * 256 + ByteAt(bs, 1), ByteAt(bs, 2)),
        err |-> ""]

binaryRead(bs) == binaryReadLen(bs, ByteLen(bs))

(***************************************************************************)
(* Error messages of the package.                                          *)
(***************************************************************************)
ErrUsed == "reply handler already used"
ErrNotReply == "Packet is not a reply"
ErrAuthMismatch == "Reply client auth mismatch"
ErrSuite == "Unsuported cipher suite"
ErrBinding == "Request/reply mismatch"
ErrIsReply == "Packet is a reply"
ErrClientAuth == "Client authentication failed"
ErrRandom == "random source failed"

(***************************************************************************)
(* generateX22519Private: 32 bytes of the random source, clamped.  The     *)
(* scalars of the model are the clamped values; rnd is what the source     *)
(* yields, "fail" when reading it fails.                                   *)
(***************************************************************************)
generateX22519Private(rnd) ==
  IF rnd = "fail" THEN [out |-> <<>>, err |-> ErrRandom]
  ELSE [out |-> <<ScalarTok(rnd)>>, err |-> ""]

(***************************************************************************)
(* clientX25519AESGCM128.PackOutgoing.  The result carries the packet,     *)
(* the closure variables of the reply handler (none on error), the error   *)
(* and the client context as the call leaves it.                           *)
(***************************************************************************)
Zeros(n) == [i \in 1..n |-> Byte(0)]
\* copy(dst[:32], src) into a zeroed dst
Copy32(src) == IF ByteLen(src) = 32 THEN src ELSE TokSlice(src \o Zeros(32), 0, 32)

PackResult(client, packetBytes, closure, err) ==
  [client |-> client, packetBytes |-> packetBytes, replyHandler |-> closure, err |-> err]

PackFail(client, err) == PackResult(client, <<>>, <<>>, err)

\* lines 134-183: the packet and the reply handler's closure
PackWritten(client, dhParam, k, data, hdr) ==
  PackResult(client,
             hdr \o dhParam \o Seal(k.key, k.iv_c, data, TokSlice(hdr \o dhParam, 0, 4)),
             <<[aesgcm |-> <<k.key>>, dhParam |-> dhParam, serverNonce |-> k.iv_s]>>,
             "")

\* lines 101-106, 114-132: dh and ss are the results of the two X25519 calls
PackDerived(client, Flags, dh, ss, data) ==
  IF dh.err # "" THEN PackFail(client, dh.err)
  ELSE IF ss.err # "" THEN PackFail(client, ss.err)
  ELSE PackWritten(client, dh.out, kdfX25519AESGCM128(dh.out, ss.out), data,
                   binaryWrite(header(Flags, CipherSuiteX25519AESGCM)))

\* PackAuth deriving the shared secret from the server's key itself
PackAuth_PlainSecret(client, sessionSecret, data) ==
  PackDerived(client, SetFlag(0, flagsClientAuth),
              X25519(sessionSecret, client.clientPublicKey),
              X25519(sessionSecret, client.ServerPublicKey),
              Copy32(client.clientPublicKey) \o Copy32(sessionSecret) \o data)

\* lines 101-112: the client-authenticated branch once the caches are set
PackAuth(client, sessionSecret, data) ==
  PackDerived(client, SetFlag(0, flagsClientAuth),
              X25519(sessionSecret, client.clientPublicKey),
              X25519(sessionSecret, client.clientServerPublicKey),
              Copy32(client.clientPublicKey) \o Copy32(sessionSecret) \o data)

\* lines 93-100: the caches are filled when clientPublicKey is nil
PackFill(client, sessionSecret, data, pub, cs) ==
  IF pub.err # "" THEN PackFail(client, pub.err)
  ELSE IF cs.err # "" THEN PackFail([client EXCEPT !.clientPublicKey = pub.out], cs.err)
  ELSE PackAuth([client EXCEPT !.clientPublicKey = pub.out,
                               !.clientServerPublicKey = cs.out],
                sessionSecret, data)

\* lines 113-120: the anonymous branch
PackAnon(client, sessionSecret, data) ==
  PackDerived(client, 0,
              X25519(sessionSecret, BasepointBytes),
              X25519(sessionSecret, client.ServerPublicKey),
              data)

\* lines 85-120
PackGenerated(client, data, gen) ==
  IF gen.err # "" THEN PackFail(client, gen.err)
  ELSE IF client.ClientPrivateKey = <<>> THEN PackAnon(client, gen.out, data)
  ELSE IF client.clientPublicKey = <<>>
    THEN PackFill(client, gen.out, data,
                  X25519(client.ClientPrivateKey, BasepointBytes),
                  X25519(client.ClientPrivateKey, client.ServerPublicKey))
  ELSE PackAuth(client, gen.out, data)

PackOutgoingFn(client, data, rnd) ==
  PackGenerated(client, data, generateX22519Private(rnd))

(***************************************************************************)
(* The reply handler PackOutgoing returns (lines 146-179).  h holds the    *)
(* closure variables, client is the context the closure refers to, in is   *)
(* the slice it is called with.  aesgcm is what the closure variable       *)
(* holds when the call returns; ops lists the cryptographic operations     *)
(* the call performed.                                                     *)
(***************************************************************************)
DecodeResult(data, err, aesgcm, ops) ==
  [data |-> data, err |-> err, aesgcm |-> aesgcm, ops |-> ops]

\* lines 175-178
DecodeOpened(opened) == DecodeResult(opened.out, opened.err, <<>>, <<"Open">>)

\* DecodeBound setting aesgcm to nil when dh_param does not match
DecodeBound_ClearsOnMismatch(h, in) ==
  IF ~SliceOK(in, 4, 36) THEN DecodeResult(<<>>, PANIC, h.aesgcm, <<>>)
  ELSE IF SliceLoHi(in, 4, 36) # h.dhParam
    THEN DecodeResult(<<>>, ErrBinding, <<>>, <<>>)
  ELSE IF ~SliceFromOK(in, 36) THEN DecodeResult(<<>>, PANIC, h.aesgcm, <<>>)
  ELSE DecodeOpened(Open(h.aesgcm[1], h.serverNonce, SliceFrom(in, 36),
                         SliceLoHi(in, 0, 4)))

\* DecodeBound without the comparison of dh_param
DecodeBound_Unbound(h, in) ==
  IF ~SliceOK(in, 4, 36) THEN DecodeResult(<<>>, PANIC, h.aesgcm, <<>>)
  ELSE IF ~SliceFromOK(in, 36) THEN DecodeResult(<<>>, PANIC, h.aesgcm, <<>>)
  ELSE DecodeOpened(Open(h.aesgcm[1], h.serverNonce, SliceFrom(in, 36),
                         SliceLoHi(in, 0, 4)))

\* lines 170-175
DecodeBound(h, in) ==
  IF ~SliceOK(in, 4, 36) THEN DecodeResult(<<>>, PANIC, h.aesgcm, <<>>)
  ELSE IF SliceLoHi(in, 4, 36) # h.dhParam
    THEN DecodeResult(<<>>, ErrBinding, h.aesgcm, <<>>)
  ELSE IF ~SliceFromOK(in, 36) THEN DecodeResult(<<>>, PANIC, h.aesgcm, <<>>)
  ELSE DecodeOpened(Open(h.aesgcm[1], h.serverNonce, SliceFrom(in, 36),
                         SliceLoHi(in, 0, 4)))

\* DecodeParsed without the test of the REPLY flag
DecodeParsed_AnyDirection(h, client, in, rd) ==
  IF rd.err # "" THEN DecodeResult(<<>>, rd.err, h.aesgcm, <<>>)
  ELSE IF (client.clientPublicKey = <<>>) # (~HasFlag(rd.h.Flags, flagsClientAuth))
    THEN DecodeResult(<<>>, ErrAuthMismatch, h.aesgcm, <<>>)
  ELSE IF rd.h.CipherSuite # CipherSuiteX25519AESGCM
    THEN DecodeResult(<<>>, ErrSuite, h.aesgcm, <<>>)
  ELSE DecodeBound(h, in)

\* lines 154-169
DecodeParsed(h, client, in, rd) ==
  IF rd.err # "" THEN DecodeResult(<<>>, rd.err, h.aesgcm, <<>>)
  ELSE IF ~HasFlag(rd.h.Flags, flagsReply)
    THEN DecodeResult(<<>>, ErrNotReply, h.aesgcm, <<>>)
  ELSE IF (client.clientPublicKey = <<>>) # (~HasFlag(rd.h.Flags, flagsClientAuth))
    THEN DecodeResult(<<>>, ErrAuthMismatch, h.aesgcm, <<>>)
  ELSE IF rd.h.CipherSuite # CipherSuiteX25519AESGCM
    THEN DecodeResult(<<>>, ErrSuite, h.aesgcm, <<>>)
  ELSE DecodeBound(h, in)

ClientReplyHandler(h, client, in) ==
  IF h.aesgcm = <<>> THEN DecodeResult(<<>>, ErrUsed, h.aesgcm, <<>>)
  ELSE DecodeParsed(h, client, in, binaryRead(in.b))

(***************************************************************************)
(* serverX22519AESGCM128.UnpackIncoming (lines 197-257, 287).  ops lists   *)
(* the cryptographic operations the call performed, in order.              *)
(***************************************************************************)
UnpackResult(data, closure, clientPublicKey, err, ops) ==
  [data |-> data, replyHandler |-> closure, clientPublicKey |-> clientPublicKey,
   err |-> err, ops |-> ops]

UnpackFail(err, ops) == UnpackResult(<<>>, <<>>, <<>>, err, ops)

\* UnpackClosure keeping the client's nonce for the reply
UnpackClosure_ClientNonce(hasClientAuth, dhParam, k) ==
  <<[aesgcm |-> <<k.key>>, dhParam |-> dhParam, serverNonce |-> k.iv_c,
     hasClientAuth |-> hasClientAuth]>>

UnpackClosure(hasClientAuth, dhParam, k) ==
  <<[aesgcm |-> <<k.key>>, dhParam |-> dhParam, serverNonce |-> k.iv_s,
     hasClientAuth |-> hasClientAuth]>>

\* UnpackChecked setting clientPublicKey before the comparison
UnpackChecked_EarlyIdentity(payload, dhParam, k, checkClient) ==
  IF checkClient.err # ""
    THEN UnpackFail(checkClient.err, <<"X25519", "KDF", "Open", "X25519">>)
  ELSE IF checkClient.out # dhParam
    THEN UnpackResult(<<>>, <<>>, TokSlice(payload, 0, 32), ErrClientAuth,
                      <<"X25519", "KDF", "Open", "X25519">>)
  ELSE UnpackResult(TokSlice(payload, 64, ByteLen(payload)),
                    UnpackClosure(TRUE, dhParam, k), TokSlice(payload, 0, 32), "",
                    <<"X25519", "KDF", "Open", "X25519">>)

\* UnpackChecked without the comparison of the recomputed dh_param
UnpackChecked_Unchecked(payload, dhParam, k, checkClient) ==
  IF checkClient.err # ""
    THEN UnpackFail(checkClient.err, <<"X25519", "KDF", "Open", "X25519">>)
  ELSE UnpackResult(TokSlice(payload, 64, ByteLen(payload)),
                    UnpackClosure(TRUE, dhParam, k), TokSlice(payload, 0, 32), "",
                    <<"X25519", "KDF", "Open", "X25519">>)

\* lines 246-254: checkClient is the result of X25519(ephemeralKey, clientPublicKeyBytes)
UnpackChecked(payload, dhParam, k, checkClient) ==
  IF checkClient.err # ""
    THEN UnpackFail(checkClient.err, <<"X25519", "KDF", "Open", "X25519">>)
  ELSE IF checkClient.out # dhParam
    THEN UnpackFail(ErrClientAuth, <<"X25519", "KDF", "Open", "X25519">>)
  ELSE UnpackResult(TokSlice(payload, 64, ByteLen(payload)),
                    UnpackClosure(TRUE, dhParam, k), TokSlice(payload, 0, 32), "",
                    <<"X25519", "KDF", "Open", "X25519">>)

\* UnpackOpened recomputing dh_param from the basepoint, not the claimed key
UnpackOpened_FromBasepoint(hasClientAuth, dhParam, k, payload) ==
  IF payload.err # "" THEN UnpackFail(payload.err, <<"X25519", "KDF", "Open">>)
  ELSE IF ~hasClientAuth
    THEN UnpackResult(payload.out, UnpackClosure(FALSE, dhParam, k), <<>>, "",
                      <<"X25519", "KDF", "Open">>)
  ELSE IF ByteLen(payload.out) < 64 THEN UnpackFail(PANIC, <<"X25519", "KDF", "Open">>)
  ELSE UnpackChecked(payload.out, dhParam, k,
                     X25519(TokSlice(payload.out, 32, 64), BasepointBytes))

\* lines 237-257: payload is the result of aesgcm.Open
UnpackOpened(hasClientAuth, dhParam, k, payload) ==
  IF payload.err # "" THEN UnpackFail(payload.err, <<"X25519", "KDF", "Open">>)
  ELSE IF ~hasClientAuth
    THEN UnpackResult(payload.out, UnpackClosure(FALSE, dhParam, k), <<>>, "",
                      <<"X25519", "KDF", "Open">>)
  ELSE IF ByteLen(payload.out) < 64 THEN UnpackFail(PANIC, <<"X25519", "KDF", "Open">>)
  ELSE UnpackChecked(payload.out, dhParam, k,
                     X25519(TokSlice(payload.out, 32, 64), TokSlice(payload.out, 0, 32)))

\* lines 224-237
UnpackKeyed(in, hasClientAuth, dhParam, k) ==
  IF ~SliceFromOK(in, 36) THEN UnpackFail(PANIC, <<"X25519", "KDF">>)
  ELSE UnpackOpened(hasClientAuth, dhParam, k,
                    Open(k.key, k.iv_c, SliceFrom(in, 36), SliceLoHi(in, 0, 4)))

\* lines 220-224: sharedSecret is the result of X25519(server.ServerPrivateKey, dhParam)
UnpackShared(in, hasClientAuth, dhParam, sharedSecret) ==
  IF sharedSecret.err # "" THEN UnpackFail(sharedSecret.err, <<"X25519">>)
  ELSE UnpackKeyed(in, hasClientAuth, dhParam,
                   kdfX25519AESGCM128(dhParam, sharedSecret.out))

\* lines 216-220
UnpackSliced(server, in, hasClientAuth, dhParam) ==
  UnpackShared(in, hasClientAuth, dhParam, X25519(server.ServerPrivateKey, dhParam))

\* UnpackParsed without the test of the cipher suite
UnpackParsed_AnySuite(server, in, rd) ==
  IF rd.err # "" THEN UnpackFail(rd.err, <<>>)
  ELSE IF HasFlag(rd.h.Flags, flagsReply) THEN UnpackFail(ErrIsReply, <<>>)
  ELSE IF ~SliceOK(in, 4, 36) THEN UnpackFail(PANIC, <<>>)
  ELSE UnpackSliced(server, in, HasFlag(rd.h.Flags, flagsClientAuth),
                    SliceLoHi(in, 4, 36))

\* lines 200-216
UnpackParsed(server, in, rd) ==
  IF rd.err # "" THEN UnpackFail(rd.err, <<>>)
  ELSE IF HasFlag(rd.h.Flags, flagsReply) THEN UnpackFail(ErrIsReply, <<>>)
  ELSE IF rd.h.CipherSuite # CipherSuiteX25519AESGCM THEN UnpackFail(ErrSuite, <<>>)
  ELSE IF ~SliceOK(in, 4, 36) THEN UnpackFail(PANIC, <<>>)
  ELSE UnpackSliced(server, in, HasFlag(rd.h.Flags, flagsClientAuth),
                    SliceLoHi(in, 4, 36))

UnpackIncomingFn(server, in) == UnpackParsed(server, in, binaryRead(in.b))

(***************************************************************************)
(* The reply handler UnpackIncoming returns (lines 259-285).               *)
(***************************************************************************)
EncodeResult(reply, err, aesgcm) == [reply |-> reply, err |-> err, aesgcm |-> aesgcm]

\* EncodeWritten leaving aesgcm set
EncodeWritten_KeepsCipher(h, data, hdr) ==
  EncodeResult(hdr \o h.dhParam
                 \o Seal(h.aesgcm[1], h.serverNonce, data, TokSlice(hdr \o h.dhParam, 0, 4)),
               "", h.aesgcm)

\* lines 270-284
EncodeWritten(h, data, hdr) ==
  EncodeResult(hdr \o h.dhParam
                 \o Seal(h.aesgcm[1], h.serverNonce, data, TokSlice(hdr \o h.dhParam, 0, 4)),
               "", <<>>)

\* ServerReplyHandler without the copy of the CLIENT_AUTH flag
ServerReplyHandler_NoAuthFlag(h, data) ==
  IF h.aesgcm = <<>> THEN EncodeResult(<<>>, ErrUsed, h.aesgcm)
  ELSE EncodeWritten(h, data, binaryWrite(header(flagsReply, CipherSuiteX25519AESGCM)))

ServerReplyHandler(h, data) ==
  IF h.aesgcm = <<>> THEN EncodeResult(<<>>, ErrUsed, h.aesgcm)
  ELSE EncodeWritten(h, data,
         binaryWrite(header(IF h.hasClientAuth THEN SetFlag(flagsReply, flagsClientAuth)
                                               ELSE flagsReply,
                            CipherSuiteX25519AESGCM)))

(***************************************************************************)
(* serverX22519AESGCM128.GetServerPublicKey.                               *)
(***************************************************************************)
GetPublicDerived(server, pub) ==
  IF pub.err # "" THEN [server |-> server, key |-> <<>>, err |-> pub.err]
  ELSE [server |-> [server EXCEPT !.serverPublicKey = pub.out], key |-> pub.out, err |-> ""]

GetServerPublicKeyFn(server) ==
  IF server.serverPublicKey # <<>>
    THEN [server |-> server, key |-> server.serverPublicKey, err |-> ""]
    ELSE GetPublicDerived(server, X25519(server.ServerPrivateKey, BasepointBytes))

(***************************************************************************)
(* The state.  clients and server are the two kinds of context; net holds  *)
(* every packet an honest party has emitted; decoders and encoders are     *)
(* the reply handlers the applications hold, each with its closure         *)
(* variables and a record of its use; last describes the most recent call  *)
(* that returned; calls holds, for each goroutine, the call it is inside   *)
(* when calls run concurrently.                                            *)
(***************************************************************************)
VARIABLES clients, server, net, decoders, encoders, last, calls

vars == <<clients, server, net, decoders, encoders, last, calls>>

Clients == {"anon", "auth"}
\* the goroutines that can be inside a call at the same time, and one that is not
Threads == 1..MaxThreads
Idle == [pc |-> "idle"]
Hi == <<Byte(104), Byte(105)>>
Ok == <<Byte(111), Byte(107)>>
Payloads == {Hi}
Replies == {<<>>, Ok}

NewClient(serverPublicKey, clientPrivateKey) ==
  [ServerPublicKey |-> serverPublicKey, ClientPrivateKey |-> clientPrivateKey,
   clientPublicKey |-> <<>>, clientServerPublicKey |-> <<>>]

NewServer(serverPrivateKey) ==
  [ServerPrivateKey |-> serverPrivateKey, serverPublicKey |-> <<>>]

ServerPrivateKey == <<ScalarTok("ssk")>>
ServerPublicKey == GetServerPublicKeyFn(NewServer(ServerPrivateKey)).key
ClientPrivateKey == <<ScalarTok("csk")>>
ClientPublicKey == X25519(ClientPrivateKey, BasepointBytes).out

\* a call: n is 1 on a reply handler's first call and 2 on every later one, live
\* says whether the handler's aesgcm was set when it was called (when the call
\* returned, for a call that ran concurrently with others), made whether the
\* call returned a reply handler
Call(op, idx, n, live, in, out, cpk, err, ops, made) ==
  [op |-> op, idx |-> idx, n |-> n, live |-> live, in |-> in, out |-> out,
   cpk |-> cpk, err |-> err, ops |-> ops, made |-> made]

Init ==
  /\ clients = [c \in Clients |->
                  IF c = "auth" THEN NewClient(ServerPublicKey, ClientPrivateKey)
                  ELSE NewClient(ServerPublicKey, <<>>)]
  /\ server = NewServer(ServerPrivateKey)
  /\ net = {}
  /\ decoders = <<>>
  /\ encoders = <<>>
  /\ last = Call("init", 0, 0, FALSE, Exact(<<>>), <<>>, <<>>, "", <<>>, FALSE)
  /\ calls = [t \in Threads |-> Idle]

Handlers == Len(decoders) + Len(encoders)

(***************************************************************************)
(* A client packs data; rnd is what its random source yields and r what    *)
(* the call returns.                                                       *)
(***************************************************************************)
PackReturns(c, data, rnd, r) ==
  /\ clients' = [clients EXCEPT ![c] = r.client]
  /\ IF r.err = ""
       THEN /\ net' = net \cup {r.packetBytes}
            /\ decoders' = Append(decoders,
                 [h |-> r.replyHandler[1], client |-> c, req |-> r.packetBytes,
                  data |-> data, rnd |-> rnd, called |-> FALSE])
       ELSE UNCHANGED <<net, decoders>>
  /\ last' = Call("pack", IF r.err = "" THEN Len(decoders) + 1 ELSE 0, 0, FALSE, Exact(data),
                  r.packetBytes, <<>>, r.err, <<>>, r.replyHandler # <<>>)
  /\ UNCHANGED <<server, encoders>>

PackOutgoing(c, data, rnd) ==
  /\ PackReturns(c, data, rnd, PackOutgoingFn(clients[c], data, rnd))
  /\ UNCHANGED calls

(***************************************************************************)
(* The server unpacks the slice in; r is what the call returns.  The       *)
(* application holds on to the reply handler if keep, and drops it         *)
(* otherwise.                                                              *)
(***************************************************************************)
\* UnpackReturns keeping the client public key of the last packet in the context
UnpackReturns_Remembers(in, keep, r) ==
  /\ IF keep /\ r.replyHandler # <<>>
       THEN encoders' = Append(encoders,
              [h |-> r.replyHandler[1], req |-> in.b, called |-> FALSE,
               reply |-> <<>>, data |-> <<>>])
       ELSE UNCHANGED encoders
  /\ last' = Call("unpack", IF keep /\ r.replyHandler # <<>> THEN Len(encoders) + 1 ELSE 0,
                  0, FALSE, in, r.data, r.clientPublicKey, r.err, r.ops,
                  r.replyHandler # <<>>)
  /\ server' = [server EXCEPT !.serverPublicKey = r.clientPublicKey]
  /\ UNCHANGED <<clients, net, decoders>>

UnpackReturns(in, keep, r) ==
  /\ IF keep /\ r.replyHandler # <<>>
       THEN encoders' = Append(encoders,
              [h |-> r.replyHandler[1], req |-> in.b, called |-> FALSE,
               reply |-> <<>>, data |-> <<>>])
       ELSE UNCHANGED encoders
  /\ last' = Call("unpack", IF keep /\ r.replyHandler # <<>> THEN Len(encoders) + 1 ELSE 0,
                  0, FALSE, in, r.data, r.clientPublicKey, r.err, r.ops,
                  r.replyHandler # <<>>)
  /\ UNCHANGED <<clients, server, net, decoders>>

UnpackIncoming(in, keep) ==
  /\ UnpackReturns(in, keep, UnpackIncomingFn(server, in))
  /\ UNCHANGED calls

(***************************************************************************)
(* The server application asks for the server's public key; r is what the  *)
(* call returns.                                                           *)
(***************************************************************************)
GetKeyReturns(r) ==
  /\ server' = r.server
  /\ last' = Call("getkey", 0, 0, FALSE, Exact(<<>>), r.key, <<>>, r.err, <<>>, FALSE)
  /\ UNCHANGED <<clients, net, decoders, encoders>>

GetServerPublicKey ==
  /\ GetKeyReturns(GetServerPublicKeyFn(server))
  /\ UNCHANGED calls

(***************************************************************************)
(* The server application calls the j-th reply encoder on data.            *)
(***************************************************************************)
EncodeReturns(j, e, data, r) ==
  /\ encoders' = [encoders EXCEPT ![j] =
        [e EXCEPT !.h.aesgcm = r.aesgcm, !.called = TRUE,
                  !.reply = IF e.called THEN @ ELSE r.reply,
                  !.data = IF e.called THEN @ ELSE data]]
  /\ net' = IF r.err = "" THEN net \cup {r.reply} ELSE net
  /\ last' = Call("encode", j, IF e.called THEN 2 ELSE 1, e.h.aesgcm # <<>>, Exact(data), r.reply,
                  <<>>, r.err, IF r.err = "" THEN <<"Seal">> ELSE <<>>, FALSE)
  /\ UNCHANGED <<clients, server, decoders>>

ReplyEncode(j, data) ==
  /\ EncodeReturns(j, encoders[j], data, ServerReplyHandler(encoders[j].h, data))
  /\ UNCHANGED calls

(***************************************************************************)
(* The client application calls the i-th reply decoder on the slice in.    *)
(***************************************************************************)
DecodeReturns(i, d, in, r) ==
  /\ decoders' = [decoders EXCEPT ![i] =
        [d EXCEPT !.h.aesgcm = r.aesgcm, !.called = TRUE]]
  /\ last' = Call("decode", i, IF d.called THEN 2 ELSE 1, d.h.aesgcm # <<>>, in, r.data, <<>>,
                  r.err, r.ops, FALSE)
  /\ UNCHANGED <<clients, server, net, encoders>>

ReplyDecode(i, in) ==
  /\ DecodeReturns(i, decoders[i], in,
                   ClientReplyHandler(decoders[i].h, clients[decoders[i].client], in))
  /\ UNCHANGED calls

(***************************************************************************)
(* The network carries the packets honest parties emitted, requests to     *)
(* the server and replies to the client, in any order and any number of    *)
(* times, each in a buffer of exactly its length.  Which reply handler a   *)
(* reply is given to is the client application's choice.                   *)
(***************************************************************************)
IsReply(p) == HasFlag(binaryRead(p).h.Flags, flagsReply)
RequestsSent == {Exact(p) : p \in {q \in net : ~IsReply(q)}}
RepliesSent == {Exact(p) : p \in {q \in net : IsReply(q)}}

Next ==
  \/ /\ Handlers < MaxHandlers
     /\ \E c \in Clients, data \in Payloads, rnd \in Ephemerals \cup {"fail"} :
          PackOutgoing(c, data, rnd)
  \/ \E in \in RequestsSent : UnpackIncoming(in, Handlers < MaxHandlers)
  \/ \E j \in 1..Len(encoders), data \in Replies : ReplyEncode(j, data)
  \/ \E i \in 1..Len(decoders), in \in RepliesSent : ReplyDecode(i, in)

Spec == Init /\ [][Next]_vars

(***************************************************************************)
(* The adversary.  It controls the network, knows both public keys and a   *)
(* scalar of its own, and can run the cipher suite on whatever it knows.   *)
(* It hands either side: any packet that was sent; a sent packet with its  *)
(* header rewritten; a sent packet cut short, in a buffer that ends there  *)
(* or that still holds the rest; a packet it built itself.                 *)
(***************************************************************************)
AdvPrivateKey == <<ScalarTok("ask")>>
AdvPublicKey == X25519(AdvPrivateKey, BasepointBytes).out

\* what the adversary can put in the dh_param field
AdvPoints ==
  {X25519(AdvPrivateKey, p).out : p \in {BasepointBytes, ClientPublicKey, AdvPublicKey}}

\* the shared secrets the adversary can compute
AdvSecrets ==
  {X25519(AdvPrivateKey, p).out :
     p \in {ServerPublicKey, X25519(AdvPrivateKey, ServerPublicKey).out}}

AdvPlain(Flags) ==
  IF HasFlag(Flags, flagsClientAuth)
    THEN {Hi, ClientPublicKey \o AdvPrivateKey \o Hi, AdvPublicKey \o AdvPrivateKey \o Hi}
    ELSE {Hi}

AdvFlags == {0, flagsClientAuth, 4}

CraftKeyed(hdr, dhParam, k, plaintext) ==
  hdr \o dhParam \o Seal(k.key, k.iv_c, plaintext, hdr)

Craft(Flags, dhParam, sharedSecret, plaintext) ==
  CraftKeyed(HeaderBytes(Flags, CipherSuiteX25519AESGCM, 0), dhParam,
             kdfX25519AESGCM128(dhParam, sharedSecret), plaintext)

Crafted ==
  UNION {{Craft(f, d, ss, pt) : pt \in AdvPlain(f)} :
           f \in AdvFlags, d \in AdvPoints, ss \in AdvSecrets}
    \cup {Craft(0, <<PointTok(LowOrderPoint)>>, ss, Hi) : ss \in AdvSecrets}

FlipFlag(Flags, bit) == IF HasFlag(Flags, bit) THEN Flags - bit ELSE Flags + bit

Retag(p, Flags, suite, rsvd) ==
  HeaderBytes(Flags, suite, rsvd) \o TokSlice(p, 4, ByteLen(p))

\* what the adversary does to a packet that was sent
Move(kind, n, spare) == [kind |-> kind, n |-> n, spare |-> spare]

TruncLens == {0, 3, 4, 35, 36, 51}
\* the lengths at which the cut-off rest is also tried as the buffer's spare capacity
SpareLens == {4, 35}

Moves ==
  {Move("same", 0, FALSE), Move("suite", 0, FALSE), Move("replysuite", 0, FALSE),
   Move("rsvd", 0, FALSE)}
    \cup {Move("flip", bit, FALSE) : bit \in {flagsReply, flagsClientAuth, 4}}
    \cup {Move("cut", n, FALSE) : n \in TruncLens}
    \cup {Move("cut", n, TRUE) : n \in SpareLens}

\* h is the header of p
TamperedFrom(p, h, m) ==
  CASE m.kind = "same" -> Exact(p)
    [] m.kind = "flip" -> Exact(Retag(p, FlipFlag(h.Flags, m.n), h.CipherSuite, 0))
    [] m.kind = "suite" -> Exact(Retag(p, h.Flags, h.CipherSuite + 1, 0))
    [] m.kind = "replysuite" ->
         Exact(Retag(p, FlipFlag(h.Flags, flagsReply), h.CipherSuite + 1, 0))
    [] m.kind = "rsvd" -> Exact(Retag(p, h.Flags, h.CipherSuite, 1))
    [] m.kind = "cut" ->
         GoSlice(TokSlice(p, 0, m.n),
                 IF m.spare THEN TokSlice(p, m.n, ByteLen(p)) ELSE <<>>)

Tampered(p, m) == TamperedFrom(p, binaryRead(p).h, m)

\* what the honest parties draw and answer while the adversary is at work, or
\* while goroutines race
AdvEphemerals == {"e1"}
AdvReplies == {Ok}

NextAdv ==
  \/ /\ Handlers < AdvMaxHandlers
     /\ \E c \in Clients, data \in Payloads, rnd \in AdvEphemerals \cup {"fail"} :
          PackOutgoing(c, data, rnd)
  \/ \E p \in net, m \in Moves : UnpackIncoming(Tampered(p, m), Handlers < AdvMaxHandlers)
  \/ \E p \in Crafted : UnpackIncoming(Exact(p), Handlers < AdvMaxHandlers)
  \/ \E j \in 1..Len(encoders), data \in AdvReplies : ReplyEncode(j, data)
  \/ \E i \in 1..Len(decoders), p \in net, m \in Moves : ReplyDecode(i, Tampered(p, m))

SpecAdv == Init /\ [][NextAdv]_vars


(***************************************************************************)
(* Tampering.  The adversary changes bytes of a sent packet from index 4   *)
(* on and leaves its length alone: in dh_param it sets the bit X25519      *)
(* ignores, changes some other bit, or writes a point of its own or a      *)
(* low-order point; in the ciphertext and tag it changes some bit.  To a    *)
(* reply decoder it also hands replies whose header it rewrote or cut.     *)
(***************************************************************************)
ByteMoves == {"same", "dh-high", "dh-flip", "dh-known", "dh-zero", "ct-flip"}

\* p is header, dh_param, ciphertext: four byte tokens and two more
Modified(p, m) ==
  CASE m = "same" -> p
    [] m = "dh-high" -> SubSeq(p, 1, 4) \o <<HighBit(p[5]), p[6]>>
    [] m = "dh-flip" -> SubSeq(p, 1, 4) \o <<Flipped(p[5]), p[6]>>
    [] m = "dh-known" -> SubSeq(p, 1, 4) \o AdvPublicKey \o <<p[6]>>
    [] m = "dh-zero" -> SubSeq(p, 1, 4) \o <<PointTok(LowOrderPoint), p[6]>>
    [] m = "ct-flip" -> SubSeq(p, 1, 5) \o <<Flipped(p[6])>>

HeaderMoves ==
  {Move("flip", flagsReply, FALSE), Move("flip", flagsClientAuth, FALSE),
   Move("suite", 0, FALSE), Move("cut", 3, FALSE)}

NextTamper ==
  \/ /\ Handlers < TamperMaxHandlers
     /\ \E c \in Clients, data \in Payloads, rnd \in AdvEphemerals :
          PackOutgoing(c, data, rnd)
  \/ \E in \in RequestsSent, m \in ByteMoves :
       UnpackIncoming(Exact(Modified(in.b, m)), Handlers < TamperMaxHandlers)
  \/ GetServerPublicKey
  \/ \E j \in 1..Len(encoders), data \in AdvReplies : ReplyEncode(j, data)
  \/ \E i \in 1..Len(decoders), in \in RepliesSent, m \in ByteMoves :
       ReplyDecode(i, Exact(Modified(in.b, m)))
  \/ \E i \in 1..Len(decoders), in \in RepliesSent, m \in HeaderMoves :
       ReplyDecode(i, Tampered(in.b, m))

SpecTamper == Init /\ [][NextTamper]_vars

(***************************************************************************)
(* Concurrent calls.  Nothing in the code orders the accesses of two       *)
(* goroutines to a client context or to a reply handler's aesgcm, so a     *)
(* call is a sequence of steps, one per access to what is shared, and the  *)
(* steps of the goroutines interleave.  A read that races with a write     *)
(* returns the value the location has now or the one it had when the call  *)
(* began.                                                                  *)
(***************************************************************************)
InFlight == Cardinality({t \in Threads : calls[t].pc # "idle"})

Returns(t) == calls' = [calls EXCEPT ![t] = Idle]

Goto(t, pc) == calls' = [calls EXCEPT ![t].pc = pc]

\* what goroutine t may read in field f of the client context it packs with
ReadClient(t, f) == {clients[calls[t].c][f], calls[t].seen[f]}

\* lines 85-91: PackOutgoing on a context with a ClientPrivateKey begins
PackBegin(t, c, data, rnd) ==
  /\ calls[t].pc = "idle"
  /\ clients[c].ClientPrivateKey # <<>>
  /\ calls' = [calls EXCEPT ![t] =
       [pc |-> "check", c |-> c, data |-> data, rnd |-> rnd,
        sessionSecret |-> generateX22519Private(rnd).out, seen |-> clients[c]]]
  /\ UNCHANGED <<clients, server, net, decoders, encoders, last>>

\* line 93: if client.clientPublicKey == nil
PackCheck(t) ==
  /\ calls[t].pc = "check"
  /\ \E v \in ReadClient(t, "clientPublicKey") :
       Goto(t, IF v = <<>> THEN "public" ELSE "use")
  /\ UNCHANGED <<clients, server, net, decoders, encoders, last>>

\* lines 94-96: pub is the result of X25519(client.ClientPrivateKey, Basepoint)
PackFilledPublic(t, c, pub) ==
  /\ clients' = [clients EXCEPT ![c].clientPublicKey = pub.out]
  /\ calls' = [calls EXCEPT ![t].pc = "shared", ![t].seen.clientPublicKey = pub.out]
  /\ UNCHANGED <<server, net, decoders, encoders, last>>

PackFillPublic(t) ==
  /\ calls[t].pc = "public"
  /\ PackFilledPublic(t, calls[t].c,
                      X25519(clients[calls[t].c].ClientPrivateKey, BasepointBytes))

\* lines 97-99: cs is the result of X25519(client.ClientPrivateKey, client.ServerPublicKey)
PackFilledShared(t, c, cs) ==
  /\ clients' = [clients EXCEPT ![c].clientServerPublicKey = cs.out]
  /\ calls' = [calls EXCEPT ![t].pc = "use", ![t].seen.clientServerPublicKey = cs.out]
  /\ UNCHANGED <<server, net, decoders, encoders, last>>

PackFillShared(t) ==
  /\ calls[t].pc = "shared"
  /\ PackFilledShared(t, calls[t].c,
                      X25519(clients[calls[t].c].ClientPrivateKey,
                             clients[calls[t].c].ServerPublicKey))

\* lines 101-183 with what the call reads in the two cached fields
PackUsed(t, call, r) ==
  /\ PackReturns(call.c, call.data, call.rnd, [r EXCEPT !.client = clients[call.c]])
  /\ Returns(t)

PackUse(t) ==
  /\ calls[t].pc = "use"
  /\ \E cs \in ReadClient(t, "clientServerPublicKey") :
       PackUsed(t, calls[t],
                PackAuth([clients[calls[t].c] EXCEPT !.clientServerPublicKey = cs],
                         calls[t].sessionSecret, calls[t].data))

(***************************************************************************)
(* A reply handler called by goroutine t: kind says which handler, idx     *)
(* which one, in what it is called with.  The steps are the reads and the  *)
(* write of the closure variable aesgcm: the test against nil (lines 147,  *)
(* 260), the method call on it (175, 278) and aesgcm = nil (176, 281).     *)
(***************************************************************************)
PANICNIL == "panic: invalid memory address or nil pointer dereference"

Cipher(kind, idx) ==
  IF kind = "encode" THEN encoders[idx].h.aesgcm ELSE decoders[idx].h.aesgcm

ReadCipher(t) == {Cipher(calls[t].kind, calls[t].idx), calls[t].seen}

\* what the handler does when it reads cipher in aesgcm
HandlerRun(call, cipher) ==
  IF call.kind = "encode"
    THEN ServerReplyHandler([encoders[call.idx].h EXCEPT !.aesgcm = cipher], call.in)
    ELSE ClientReplyHandler([decoders[call.idx].h EXCEPT !.aesgcm = cipher],
                            clients[decoders[call.idx].client], call.in)

\* the call got as far as Seal or Open
Reached(call, r) == IF call.kind = "encode" THEN r.err = "" ELSE r.ops # <<>>

Panicked(call) ==
  IF call.kind = "encode"
    THEN EncodeResult(<<>>, PANICNIL, Cipher(call.kind, call.idx))
    ELSE DecodeResult(<<>>, PANICNIL, Cipher(call.kind, call.idx), <<>>)

HandlerReturns(t, call, r) ==
  /\ IF call.kind = "encode"
       THEN EncodeReturns(call.idx, encoders[call.idx], call.in, r)
       ELSE DecodeReturns(call.idx, decoders[call.idx], call.in, r)
  /\ Returns(t)

HandlerBegin(t, kind, idx, in) ==
  /\ calls[t].pc = "idle"
  /\ calls' = [calls EXCEPT ![t] =
       [pc |-> "entered", kind |-> kind, idx |-> idx, in |-> in,
        seen |-> Cipher(kind, idx)]]
  /\ UNCHANGED <<clients, server, net, decoders, encoders, last>>

\* lines 147-150, 260-263: if aesgcm == nil
HandlerCheck(t) ==
  /\ calls[t].pc = "entered"
  /\ \E v \in ReadCipher(t) :
       IF v = <<>>
         THEN HandlerReturns(t, calls[t], HandlerRun(calls[t], <<>>))
         ELSE /\ calls' = [calls EXCEPT ![t].pc = "crypt", ![t].seen = v]
              /\ UNCHANGED <<clients, server, net, decoders, encoders, last>>

\* lines 152-175, 264-279: r is what the handler computes with the cipher it
\* saw; v is what it reads in aesgcm when it calls Open or Seal
HandlerCrypted(t, call, r) ==
  IF ~Reached(call, r)
    THEN HandlerReturns(t, call, [r EXCEPT !.aesgcm = Cipher(call.kind, call.idx)])
    ELSE \E v \in ReadCipher(t) :
           IF v = <<>>
             THEN HandlerReturns(t, call, Panicked(call))
             ELSE /\ calls' = [calls EXCEPT ![t] = [pc |-> "clear", kind |-> call.kind,
                                 idx |-> call.idx, in |-> call.in, r |-> r]]
                  /\ UNCHANGED <<clients, server, net, decoders, encoders, last>>

HandlerCrypt(t) ==
  /\ calls[t].pc = "crypt"
  /\ HandlerCrypted(t, calls[t], HandlerRun(calls[t], calls[t].seen))

\* lines 176-178, 281-284: aesgcm = nil, return
HandlerClear(t) ==
  /\ calls[t].pc = "clear"
  /\ HandlerReturns(t, calls[t], [calls[t].r EXCEPT !.aesgcm = <<>>])

NextRace ==
  \/ /\ Handlers + InFlight < RaceMaxHandlers
     /\ \E t \in Threads, c \in Clients, data \in Payloads, rnd \in AdvEphemerals :
          PackBegin(t, c, data, rnd)
  \/ \E t \in Threads : PackCheck(t)
  \/ \E t \in Threads : PackFillPublic(t)
  \/ \E t \in Threads : PackFillShared(t)
  \/ \E t \in Threads : PackUse(t)
  \/ \E in \in RequestsSent : UnpackIncoming(in, Handlers + InFlight < RaceMaxHandlers)
  \/ \E t \in Threads, j \in 1..Len(encoders), data \in AdvReplies :
       HandlerBegin(t, "encode", j, data)
  \/ \E t \in Threads, i \in 1..Len(decoders), in \in RepliesSent :
       HandlerBegin(t, "decode", i, in)
  \/ \E t \in Threads : HandlerCheck(t)
  \/ \E t \in Threads : HandlerCrypt(t)
  \/ \E t \in Threads : HandlerClear(t)

SpecRace == Init /\ [][NextRace]_vars

(***************************************************************************)
(* What the properties below speak of: the slice the last call was given   *)
(* and the header it carries.                                              *)
(***************************************************************************)
InLen == LenOf(last.in)
InHeader == binaryRead(last.in.b).h
InIsReply == InLen >= 4 /\ HasFlag(InHeader.Flags, flagsReply)
InIsRequest == InLen >= 4 /\ ~HasFlag(InHeader.Flags, flagsReply)
InReserved == InLen >= 4 /\ InHeader.Flags \div 4 # 0
Malformed == {ErrEOF, ErrUnexpectedEOF}
\* encoder j answered request packet req, and the last call was given its reply
Answered(j, req) ==
  encoders[j].called /\ encoders[j].req = req /\ encoders[j].reply = last.in.b
    /\ last.in.spare = <<>>

\* C1: a reply decoder called a second time returns "reply handler already
\* used", whatever its first call returned.  The code lets a decoder whose
\* first call stopped before Open run again.
C1_DecoderAtMostOnce ==
  (last.op = "decode" /\ last.n = 2) => (last.err = ErrUsed /\ last.out = <<>>)

\* C2: a reply encoder's first call returns a reply packet and no error; every
\* later call returns "reply handler already used" and no packet.
C2_EncoderOneShot ==
  last.op = "encode" =>
    IF last.n = 1
      THEN last.err = "" /\ ByteLen(last.out) >= 52 /\ IsReply(last.out)
                /\ last.out \in net
      ELSE last.err = ErrUsed /\ last.out = <<>>

C2_Witness == last.op = "encode" /\ last.n = 2 /\ last.err = ErrUsed

\* C3: the server unpacking a packet exactly as PackOutgoing produced it gets
\* no error, the data that was packed, and the client's public key when the
\* client has a private key, nil when it has none.
C3_RequestRoundTrip ==
  last.op = "unpack" =>
    \A i \in 1..Len(decoders) :
      (decoders[i].req = last.in.b /\ last.in.spare = <<>>) =>
        /\ last.err = ""
        /\ last.out = decoders[i].data
        /\ last.made
        /\ last.cpk = IF decoders[i].client = "auth" THEN ClientPublicKey ELSE <<>>

C3_Witness ==
  /\ last.op = "unpack" /\ last.err = "" /\ last.out = Hi /\ last.cpk = ClientPublicKey
  /\ \E i \in 1..Len(decoders) : decoders[i].req = last.in.b /\ decoders[i].client = "auth"

\* C4: the first call of the decoder of a request, on the reply the server's
\* encoder for that request produced, returns the reply data and no error.
C4_ReplyRoundTrip ==
  (last.op = "decode" /\ last.n = 1) =>
    \A j \in 1..Len(encoders) :
      Answered(j, decoders[last.idx].req) =>
        last.err = "" /\ last.out = encoders[j].data

C4_Witness ==
  /\ last.op = "decode" /\ last.n = 1 /\ last.err = "" /\ last.out = Ok
  /\ decoders[last.idx].client = "auth"
  /\ \E j \in 1..Len(encoders) : Answered(j, decoders[last.idx].req)

\* the last call gave the reply to request k to the decoder of a request with
\* another ephemeral key
CrossFed(k) ==
  /\ last.op = "decode"
  /\ decoders[k].rnd # decoders[last.idx].rnd
  /\ \E j \in 1..Len(encoders) : Answered(j, decoders[k].req)

\* C5 as stated: the reply to R2 given to the decoder of R1, R1 and R2 having
\* distinct ephemeral keys, returns "Request/reply mismatch".
C5_Binding ==
  \A k \in 1..Len(decoders) : CrossFed(k) => last.err = ErrBinding

\* C5 amended: the reply to R2 given to the decoder of R1 never returns data.
\* The error is "Request/reply mismatch" when the decoder is unused and both
\* requests come from clients of the same mode, "Reply client auth mismatch"
\* when it is unused and the modes differ, "reply handler already used" when
\* the decoder was used.
C5_BindingAmended ==
  \A k \in 1..Len(decoders) :
    CrossFed(k) =>
      /\ last.out = <<>>
      /\ last.err = IF ~last.live THEN ErrUsed
                    ELSE IF decoders[k].client # decoders[last.idx].client
                      THEN ErrAuthMismatch
                    ELSE ErrBinding

C5_Witness ==
  \E k \in 1..Len(decoders) :
    CrossFed(k) /\ last.live /\ decoders[k].client = decoders[last.idx].client
      /\ last.err = ErrBinding

\* C6: when the server returns the honest client's public key, the packet it
\* unpacked is one that client's PackOutgoing produced; no packet an adversary
\* without the client's private key makes is accepted under that key.
C6_ClientAuthentic ==
  (last.op = "unpack" /\ last.err = "" /\ last.cpk = ClientPublicKey) =>
    \E i \in 1..Len(decoders) :
      decoders[i].client = "auth" /\ decoders[i].req = last.in.b

C6_Witness ==
  /\ last.op = "unpack" /\ last.err = "" /\ last.cpk = ClientPublicKey
  /\ last.out = Hi /\ last.made

\* C7: a packet shorter than 52 bytes is rejected as malformed by the server
\* before any cryptographic operation.  The code has no length check.
C7_ShortRejected ==
  (last.op = "unpack" /\ InLen < 52) => (last.err \in Malformed /\ last.ops = <<>>)

\* C8 as stated: the server answers every packet whose cipher suite is not
\* 0x01 with "Unsuported cipher suite".
C8_Suite ==
  (last.op = "unpack" /\ InLen >= 4 /\ InHeader.CipherSuite # CipherSuiteX25519AESGCM)
    => last.err = ErrSuite

\* C8 amended: the server returns no data and no reply handler, and performs
\* no cryptographic operation, for a packet whose cipher suite is not 0x01;
\* the error is "Unsuported cipher suite" when the REPLY flag is clear and
\* "Packet is a reply" when it is set.
C8_SuiteAmended ==
  (last.op = "unpack" /\ InLen >= 4 /\ InHeader.CipherSuite # CipherSuiteX25519AESGCM)
    => /\ last.out = <<>> /\ ~last.made /\ last.ops = <<>>
       /\ last.err = IF InIsReply THEN ErrIsReply ELSE ErrSuite

C8_Witness ==
  /\ last.op = "unpack" /\ InIsRequest /\ InLen >= 52
  /\ InHeader.CipherSuite # CipherSuiteX25519AESGCM
  /\ last.err = ErrSuite

\* C9 as stated: the server answers every packet with the REPLY flag set with
\* "Packet is a reply", and a reply decoder answers every packet with the
\* REPLY flag clear with "Packet is not a reply" or a malformed error; neither
\* returns data.
C9_Direction ==
  /\ (last.op = "unpack" /\ InIsReply) => (last.err = ErrIsReply /\ last.out = <<>>)
  /\ (last.op = "decode" /\ InIsRequest) =>
       (last.err \in {ErrNotReply} \cup Malformed /\ last.out = <<>>)

\* C9 amended: as C9 for the server; a reply decoder given a packet with the
\* REPLY flag clear returns no data, with "Packet is not a reply" when the
\* decoder is unused and "reply handler already used" when it was used.
C9_DirectionAmended ==
  /\ (last.op = "unpack" /\ InIsReply) =>
       (last.err = ErrIsReply /\ last.out = <<>> /\ ~last.made /\ last.ops = <<>>)
  /\ (last.op = "decode" /\ InIsRequest) =>
       /\ last.out = <<>> /\ last.ops = <<>>
       /\ last.err = IF last.live THEN ErrNotReply ELSE ErrUsed

C9_Witness ==
  /\ last.op = "decode" /\ InIsRequest /\ InLen >= 52 /\ last.live
  /\ last.err = ErrNotReply

\* C10: a packet with a reserved flag bit (any bit but REPLY and CLIENT_AUTH)
\* set is rejected by the server and by a reply decoder.  The code never looks
\* at the reserved bits.
C10_ReservedRejected ==
  (last.op \in {"unpack", "decode"} /\ InReserved) => (last.err # "" /\ last.out = <<>>)

\* C11: a call that returns an error returns nothing else: PackOutgoing no
\* packet and no reply decoder; UnpackIncoming no data, no client public key
\* and no reply encoder, also when the client authentication fails after a
\* successful Open; a reply handler no data.
C11_NoPartialResults ==
  last.err # "" =>
    /\ last.out = <<>>
    /\ ~last.made
    /\ last.cpk = <<>>
    /\ last.op = "pack" => last.idx = 0

C11_Witness ==
  /\ last.op = "unpack" /\ last.err = ErrClientAuth
  /\ last.ops = <<"X25519", "KDF", "Open", "X25519">>

\* what the server's key opens in the slice the last call was given
InDhParam == TokSlice(last.in.b, 4, 36)
InKeys == kdfX25519AESGCM128(InDhParam, X25519(ServerPrivateKey, InDhParam).out)
InOpened ==
  Open(InKeys.key, InKeys.iv_c, TokSlice(last.in.b, 36, InLen), TokSlice(last.in.b, 0, 4))
\* a request with CLIENT_AUTH set that decrypts, to at least the 64 bytes of
\* the claimed key and the ephemeral scalar
InAuthOpened ==
  /\ last.op = "unpack" /\ InLen >= 52 /\ InIsRequest
  /\ InHeader.CipherSuite = CipherSuiteX25519AESGCM
  /\ HasFlag(InHeader.Flags, flagsClientAuth)
  /\ X25519(ServerPrivateKey, InDhParam).err = ""
  /\ InOpened.err = "" /\ ByteLen(InOpened.out) >= 64
InCheck == X25519(TokSlice(InOpened.out, 32, 64), TokSlice(InOpened.out, 0, 32))

\* C12: for a request with CLIENT_AUTH set that decrypts, when X25519 of the
\* embedded ephemeral scalar and claimed key differs from dh_param the server
\* returns "Client authentication failed" and no client public key; a client
\* public key is returned only when the recomputed value equals dh_param,
\* and it is the claimed key.
C12_ForgeryCheck ==
  InAuthOpened =>
    /\ (InCheck.err = "" /\ InCheck.out # InDhParam) =>
         (last.err = ErrClientAuth /\ last.cpk = <<>>)
    /\ last.cpk # <<>> =>
         (InCheck.err = "" /\ InCheck.out = InDhParam
            /\ last.cpk = TokSlice(InOpened.out, 0, 32))

C12_Witness ==
  /\ InAuthOpened /\ InCheck.err = "" /\ InCheck.out # InDhParam
  /\ TokSlice(InOpened.out, 0, 32) = ClientPublicKey
  /\ last.err = ErrClientAuth

\* the slice the last call was given is a sent packet with bytes from index 4
\* on changed, and is not itself a sent packet
InModified ==
  /\ last.in.b \notin net
  /\ \E p \in net, m \in ByteMoves \ {"same"} : last.in.b = Modified(p, m)

OutHeader == binaryRead(last.out).h
EncoderRequest == encoders[last.idx].req

\* C14: a reply packet a server reply encoder returns has the REPLY flag
\* set, suite 0x01, the CLIENT_AUTH flag of the request that created the
\* encoder, and that request's dh_param in bytes 4 to 36.
C14_ReplyHeader ==
  (last.op = "encode" /\ last.err = "") =>
    /\ HasFlag(OutHeader.Flags, flagsReply)
    /\ OutHeader.CipherSuite = CipherSuiteX25519AESGCM
    /\ HasFlag(OutHeader.Flags, flagsClientAuth)
         = HasFlag(binaryRead(EncoderRequest).h.Flags, flagsClientAuth)
    /\ TokSlice(last.out, 4, 36) = TokSlice(EncoderRequest, 4, 36)

C14_Witness ==
  /\ last.op = "encode" /\ last.err = ""
  /\ HasFlag(OutHeader.Flags, flagsClientAuth)
  /\ HasFlag(binaryRead(EncoderRequest).h.Flags, flagsClientAuth)

\* C15: every PackOutgoing of concurrent calls on a client context with a
\* ClientPrivateKey succeeds.  The code publishes clientPublicKey before
\* clientServerPublicKey, with nothing ordering the two goroutines.
C15_CachesRaceSafe ==
  last.op = "pack" => last.err = ""

\* what UnpackIncoming returns for the last call's slice on a server context
\* just constructed with the same private key
OnFreshServer == UnpackIncomingFn(NewServer(ServerPrivateKey), last.in)

\* C16: UnpackIncoming and the server's reply encoder leave the server
\* context as it was, and whatever came before, UnpackIncoming returns the
\* data, client public key and error it returns on a context just constructed.
C16_ServerStateless ==
  /\ [](last.op = "unpack" =>
          /\ last.out = OnFreshServer.data
          /\ last.cpk = OnFreshServer.clientPublicKey
          /\ last.err = OnFreshServer.err)
  /\ [][last'.op \in {"unpack", "encode"} => server' = server]_vars

C16_Witness ==
  /\ last.op = "unpack" /\ last.err = "" /\ last.out = Hi
  /\ server.serverPublicKey # <<>>
  /\ \E j \in 1..Len(encoders) : encoders[j].called

\* what was sealed in sent packet p: key, nonce, plaintext and AAD
Sealed(p) == p[6].c
SameNonce(p, q) ==
  Sealed(p).key = Sealed(q).key /\ Sealed(p).nonce = Sealed(q).nonce
\* no request was unpacked into two reply encoders, and the random source
\* gave no client context the same scalar twice
NoReplay ==
  \A j, k \in 1..Len(encoders) : encoders[j].req = encoders[k].req => j = k
FreshEphemerals ==
  \A i, k \in 1..Len(decoders) :
    (decoders[i].client = decoders[k].client /\ decoders[i].rnd = decoders[k].rnd)
      => i = k

\* C17 as stated: no key and nonce ever seal two different plaintexts, also
\* when the server receives the same request more than once.
C17_NonceUnique ==
  \A p, q \in net : SameNonce(p, q) => Sealed(p).pt = Sealed(q).pt

\* C17 amended: no key and nonce seal two different plaintexts as long as no
\* request is unpacked into more than one reply encoder and the random source
\* never repeats for a client context.  A request unpacked twice gives two
\* encoders with the same key and server nonce.
C17_NonceUniqueAmended ==
  (NoReplay /\ FreshEphemerals) => C17_NonceUnique

\* a request and its reply: one key, two nonces, two plaintexts
C17_Witness ==
  /\ NoReplay /\ FreshEphemerals
  /\ \E p, q \in net :
       /\ Sealed(p).key = Sealed(q).key /\ Sealed(p).nonce # Sealed(q).nonce
       /\ Sealed(p).pt # Sealed(q).pt
       /\ ~IsReply(p) /\ IsReply(q)

\* C18: UnpackIncoming and the client's reply decoder return, with a result
\* or an error, for every input.  The code slices the packet at 4:36 and 36:
\* and the opened payload at :32 and 32:64 without looking at their lengths.
C18_NeverAborts ==
  last.op \in {"unpack", "decode"} => last.err # PANIC

\* C19: a reply decoder is used from the call that reaches Open on, whether
\* Open succeeds or fails: a call on a used decoder returns "reply handler
\* already used"; a call that returns before Open leaves the decoder as it
\* was, and a later call on the genuine reply returns the reply data.
C19_UsedAtOpen ==
  last.op = "decode" =>
    /\ ~last.live =>
         (last.err = ErrUsed /\ last.ops = <<>>
            /\ decoders[last.idx].h.aesgcm = <<>>)
    /\ last.live =>
         ((decoders[last.idx].h.aesgcm = <<>>) <=> (last.ops = <<"Open">>))
    /\ last.live =>
         \A j \in 1..Len(encoders) :
           Answered(j, decoders[last.idx].req) =>
             (last.err = "" /\ last.out = encoders[j].data)

\* the second call of a decoder, after a first that was rejected before Open
C19_Witness ==
  /\ last.op = "decode" /\ last.n = 2 /\ last.live
  /\ last.err = "" /\ last.out = Ok /\ last.ops = <<"Open">>
  /\ decoders[last.idx].h.aesgcm = <<>>

\* C20: of two concurrent calls of one reply handler at most one performs
\* Seal or Open, the other returns "reply handler already used", and neither
\* aborts on a nil aesgcm.  Nothing in the code orders the test of aesgcm, its
\* use and its clearing between goroutines.
C20_OneShotConcurrent ==
  last.op \in {"encode", "decode"} =>
    /\ last.err # PANICNIL
    /\ last.ops # <<>> => last.live

====
